---- MODULE Spec2Model ----
(***************************************************************************)
(* Model of the Gmail filters of src/Code.js: the label store, the four    *)
(* filters (GitHub, GitLab, Bugzilla, Mailman), AbstractGMailFilter.run    *)
(* and main().                                                             *)
(*                                                                         *)
(* Strings are sequences of one-character strings, so that split, trim,    *)
(* replace and the regular expressions of the source are computed rather   *)
(* than assumed.  A message is a function from header names to the text    *)
(* that follows "Name: " on the header's line; a regular expression of the *)
(* source anchored on "^Name: " is an operator on that text.               *)
(***************************************************************************)
EXTENDS Integers, Sequences, FiniteSets, TLC

\* JavaScript null / undefined.  It is not a sequence of one-character
\* strings, so it differs from every string of the model.
Null == <<"null">>

\* -------------------------------------------------------------------------
\* String primitives (String.prototype / RegExp behaviour used by Code.js)
\* -------------------------------------------------------------------------

Tail0(s, n) == SubSeq(s, n, Len(s))

\* whitespace stripped by String.prototype.trim
IsSpace(c) == c \in {" ", "\t"}

RECURSIVE TrimLeft(_)
TrimLeft(s) ==
  IF s = <<>> THEN <<>>
  ELSE IF IsSpace(Head(s)) THEN TrimLeft(Tail(s)) ELSE s

RECURSIVE TrimRight(_)
TrimRight(s) ==
  IF s = <<>> THEN <<>>
  ELSE IF IsSpace(s[Len(s)]) THEN TrimRight(SubSeq(s, 1, Len(s) - 1)) ELSE s

\* String.prototype.trim
Trim(s) == TrimRight(TrimLeft(s))

\* the " *" of a regular expression: leading blanks consumed greedily
RECURSIVE SkipBlanks(_)
SkipBlanks(s) ==
  IF s = <<>> THEN <<>>
  ELSE IF Head(s) = " " THEN SkipBlanks(Tail(s)) ELSE s

\* String.prototype.indexOf for one character, 1-based; 0 when absent
IndexOf(s, c) ==
  IF \E i \in 1..Len(s) : s[i] = c
  THEN CHOOSE i \in 1..Len(s) : s[i] = c /\ \A j \in 1..(i - 1) : s[j] # c
  ELSE 0

StartsWith(s, p) == Len(p) <= Len(s) /\ SubSeq(s, 1, Len(p)) = p

EndsWith(s, p) == Len(p) <= Len(s) /\ SubSeq(s, Len(s) - Len(p) + 1, Len(s)) = p

\* String.prototype.includes
Includes(s, k) ==
  \E i \in 1..(Len(s) - Len(k) + 1) : SubSeq(s, i, i + Len(k) - 1) = k

\* String.prototype.replace(/c/g, by) for a set of characters
ReplaceChars(s, cs, by) == [i \in 1..Len(s) |-> IF s[i] \in cs THEN by ELSE s[i]]

\* String.prototype.split(sep) for a one-character separator
RECURSIVE Split(_, _)
Split(s, sep) ==
  LET i == IndexOf(s, sep)
  IN IF i = 0 THEN <<s>>
     ELSE <<SubSeq(s, 1, i - 1)>> \o Split(Tail0(s, i + 1), sep)

\* `${a}/${b}`
Slash(a, b) == a \o <<"/">> \o b

\* the text of header h of message m after "h: ", or Null when the message
\* has no such header line
Header(m, h) == IF h \in DOMAIN m THEN m[h] ELSE Null

\* -------------------------------------------------------------------------
\* Label store (GmailApp.getUserLabelByName / GmailApp.createLabel)
\* -------------------------------------------------------------------------

\* A label is identified by its full name.  The store is the set of the
\* names of the user labels that exist.  createLabel throws for the name
\* failC (an API error injected by the environment), Null for no failure.
GetOrCreateLabel(st, labelStr, failC) ==
  LET sanitizedLabelStr == ReplaceChars(labelStr, {"(", ")"}, "_")
  IN IF sanitizedLabelStr \in st
     THEN [store |-> st, label |-> sanitizedLabelStr, thrown |-> FALSE]
     ELSE IF sanitizedLabelStr = failC
          THEN [store |-> st, label |-> Null, thrown |-> TRUE]
          ELSE [store |-> st \cup {sanitizedLabelStr},
                label |-> sanitizedLabelStr, thrown |-> FALSE]

\* the reduce of _getOrCreateLabelHierarchy: currentLabel is the label
\* reached so far (Null before the first segment), labels the segments left
RECURSIVE HierarchyReduce(_, _, _, _)
HierarchyReduce(st, currentLabel, labels, failC) ==
  IF labels = <<>>
  THEN [store |-> st, label |-> currentLabel, thrown |-> FALSE]
  ELSE LET r == IF currentLabel # Null
                THEN GetOrCreateLabel(st, Slash(currentLabel, Head(labels)), failC)
                ELSE GetOrCreateLabel(st, Head(labels), failC)
       IN IF r.thrown THEN r
          ELSE HierarchyReduce(r.store, r.label, Tail(labels), failC)

\* _getOrCreateLabelHierarchy that creates the leaf label only
GetOrCreateLeafOnly(st, labelName, failC) == GetOrCreateLabel(st, labelName, failC)

GetOrCreateLabelHierarchy(st, labelName, failC) ==
  HierarchyReduce(st, Null, Split(labelName, "/"), failC)

\* -------------------------------------------------------------------------
\* Case-insensitive matching (the i flag of the regular expressions)
\* -------------------------------------------------------------------------

UpperCase == <<"A","B","C","D","E","F","G","H","I","J","K","L","M","N","O","P","Q","R","S","T","U","V","W","X","Y","Z">>
LowerCase == <<"a","b","c","d","e","f","g","h","i","j","k","l","m","n","o","p","q","r","s","t","u","v","w","x","y","z">>

ToLowerChar(c) ==
  IF \E i \in 1..Len(UpperCase) : UpperCase[i] = c
  THEN LowerCase[CHOOSE i \in 1..Len(UpperCase) : UpperCase[i] = c]
  ELSE c

ToLower(s) == [i \in 1..Len(s) |-> ToLowerChar(s[i])]

\* -------------------------------------------------------------------------
\* GitHubFilter
\* -------------------------------------------------------------------------

UnimportantReasons == {<<"s","u","b","s","c","r","i","b","e","d">>, <<"t","e","a","m","_","m","e","n","t","i","o","n">>, <<"c","i","_","a","c","t","i","v","i","t","y">>}

\* /^X-GitHub-Reason: (.*)/mi, group 1 trimmed; a string is truthy when it
\* is not empty
GitHubIsImportantMessage(m) ==
  LET v == Header(m, "X-GitHub-Reason")
      ghReason == IF v = Null THEN Null ELSE Trim(v)
  IN ghReason # Null /\ ghReason # <<>> /\ ghReason \notin UnimportantReasons

\* /^List-ID: ([^<]*) <[^>]*>.*/mi : group 1 is the text before the first
\* " <", which must be closed by a ">"; Null when the line does not match
GitHubListIdMatch(v) ==
  LET lt == IndexOf(v, "<")
  IN IF lt >= 2 /\ v[lt - 1] = " " /\ IndexOf(Tail0(v, lt + 1), ">") # 0
     THEN SubSeq(v, 1, lt - 2)
     ELSE Null

\* the label path of one message, Null when the callback returns null
GitHubLabelPath(m) ==
  LET v == Header(m, "List-ID")
      listId == IF v = Null THEN Null ELSE GitHubListIdMatch(v)
  IN IF listId = Null THEN Null
     ELSE LET slash == IndexOf(listId, "/")
          IN IF slash = 0 THEN Null
             ELSE LET orgMatch == SubSeq(listId, 1, slash - 1)
                      repoMatch == Tail0(listId, slash + 1)
                      org == IF orgMatch # <<>>
                             THEN ReplaceChars(Trim(orgMatch), {"_"}, " ")
                             ELSE <<"u","n","k","n","o","w","n","_","o","r","g">>
                      repo == IF repoMatch # <<>>
                              THEN ReplaceChars(Trim(repoMatch), {"_"}, " ")
                              ELSE <<"u","n","k","n","o","w","n","_","r","e","p","o">>
                  IN Slash(Slash(<<"G","i","t","H","u","b">>, org), repo)

\* -------------------------------------------------------------------------
\* GitLabFilter
\* -------------------------------------------------------------------------

GitLabRootLabel == <<"g","i","t","l","a","b",".","e","c","l","i","p","s","e",".","o","r","g">>

\* if (pathElement?.trim()?.length > 1)
GitLabKeepsElement(pathElement) == Len(Trim(pathElement)) > 1

\* projectPath.reduce(..., rootLabel)
RECURSIVE GitLabReduce(_, _)
GitLabReduce(acc, projectPath) ==
  IF projectPath = <<>> THEN acc
  ELSE IF GitLabKeepsElement(Head(projectPath))
       THEN GitLabReduce(Slash(acc, Trim(Head(projectPath))), Tail(projectPath))
       ELSE GitLabReduce(acc, Tail(projectPath))

\* /^X-GitLab-Project-Path: *(.*)/mi, group 1 split on "/"
GitLabLabelPath(m) ==
  LET v == Header(m, "X-GitLab-Project-Path")
  IN IF v # Null
     THEN GitLabReduce(GitLabRootLabel, Split(SkipBlanks(v), "/"))
     ELSE GitLabRootLabel

\* -------------------------------------------------------------------------
\* BugzillaFilter
\* -------------------------------------------------------------------------

\* an optional backslash: the \\? of the regular expression literals
OptBackslash(s) == IF s # <<>> /\ Head(s) = "\\" THEN Tail(s) ELSE s

\* (=\\?UTF-8\\?Q\\?)? : "=", "UTF-8" and "Q", each followed by an optional
\* backslash.  The text left after the group when it matches, Null when the
\* group does not take part in the match.
BugzillaWrapperRest(v) ==
  IF v # <<>> /\ Head(v) = "="
  THEN LET a == OptBackslash(Tail(v))
       IN IF StartsWith(ToLower(a), <<"u","t","f","-","8">>)
          THEN LET b == OptBackslash(Tail0(a, 6))
               IN IF b # <<>> /\ ToLowerChar(Head(b)) = "q"
                  THEN OptBackslash(Tail(b))
                  ELSE Null
          ELSE Null
  ELSE Null

\* ([^?\n]*) : the longest prefix without "?"
UpToQuestionMark(s) ==
  LET q == IndexOf(s, "?") IN IF q = 0 THEN s ELSE SubSeq(s, 1, q - 1)

\* String.prototype.match returned null
NoMatch == [matched |-> FALSE, g1 |-> Null, g2 |-> Null]

\* the match of /^X-Bugzilla-<h>: (=\\?UTF-8\\?Q\\?)?([^?\n]*)(\\?=)?/mi as
\* its groups 1 and 2; NoMatch when the message has no such header
BugzillaMatch(m, h) ==
  LET v == Header(m, h)
  IN IF v = Null THEN NoMatch
     ELSE LET rest == BugzillaWrapperRest(v)
          IN IF rest # Null
             THEN [matched |-> TRUE, g1 |-> SubSeq(v, 1, Len(v) - Len(rest)),
                   g2 |-> UpToQuestionMark(rest)]
             ELSE [matched |-> TRUE, g1 |-> Null, g2 |-> UpToQuestionMark(v)]

BugzillaIsImportantMessage(m) ==
  LET bzReason == BugzillaMatch(m, "X-Bugzilla-Reason")
  IN bzReason.matched /\ Trim(bzReason.g2) # <<"N","o","n","e">>

\* rootLabels, in the order of Object.keys
BugzillaRootLabels ==
  << <<<<"b","u","g","s",".","e","c","l","i","p","s","e",".","o","r","g">>, <<"E","c","l","i","p","s","e"," ","B","u","g","s">>>>,
     <<<<"p","o","l","a","r","s","y","s",".","o","r","g">>, <<"P","o","l","a","r","s","y","s"," ","B","u","g","s">>>>,
     <<<<"l","o","c","a","t","i","o","n","t","e","c","h",".","o","r","g">>, <<"L","o","c","a","t","i","o","n","T","e","c","h"," ","B","u","g","s">>>>,
     <<<<"f","o","u","n","d","a","t","i","o","n","=","2","E","e","c","l","i","p","s","e","=","2","E","o","r","g">>, <<"F","o","u","n","d","a","t","i","o","n"," ","B","u","g","s">>>>,
     <<<<"f","o","u","n","d","a","t","i","o","n",".","e","c","l","i","p","s","e",".","o","r","g">>, <<"F","o","u","n","d","a","t","i","o","n"," ","B","u","g","s">>>> >>

GetRootLabel(url) ==
  IF \E i \in 1..Len(BugzillaRootLabels) : Includes(url, BugzillaRootLabels[i][1])
  THEN LET key == CHOOSE i \in 1..Len(BugzillaRootLabels) :
                    /\ Includes(url, BugzillaRootLabels[i][1])
                    /\ \A j \in 1..(i - 1) : ~Includes(url, BugzillaRootLabels[j][1])
       IN BugzillaRootLabels[key][2]
  ELSE <<"U","n","k","n","o","w","n"," ","B","u","g","z","i","l","l","a">>

ProcessMatch(match) ==
  IF match.matched
  THEN LET result == Trim(match.g2)
       IN IF match.g1 # Null THEN ReplaceChars(result, {"_"}, " ") ELSE result
  ELSE Null

\* thrown by BugzillaFilter.findLabels for a message without X-Bugzilla-URL
Throw == <<"throw">>

\* findLabels that labels a message without X-Bugzilla-URL "Unknown Bugzilla"
\* instead of throwing
BugzillaLabelPathNoThrow(m) ==
  IF Header(m, "X-Bugzilla-URL") = Null THEN <<"U","n","k","n","o","w","n"," ","B","u","g","z","i","l","l","a">>
  ELSE GetRootLabel(Header(m, "X-Bugzilla-URL"))

\* the label path of one message, Throw when the callback throws
BugzillaLabelPath(m) ==
  LET url == Header(m, "X-Bugzilla-URL")
  IN IF url = Null THEN Throw
     ELSE LET root == GetRootLabel(url)
              product == ProcessMatch(BugzillaMatch(m, "X-Bugzilla-Product"))
              component == ProcessMatch(BugzillaMatch(m, "X-Bugzilla-Component"))
          IN IF product # Null /\ product # <<>> /\ component # Null /\ component # <<>>
             THEN Slash(Slash(root, product), component)
             ELSE root

\* -------------------------------------------------------------------------
\* MailmanFilter
\* -------------------------------------------------------------------------

MailmanRoot == <<"E","c","l","i","p","s","e"," ","L","i","s","t","s">>

\* the text between the first "<" of v and the next ">", Null without them
Bracketed(v) ==
  LET lt == IndexOf(v, "<")
  IN IF lt = 0 THEN Null
     ELSE LET rest == Tail0(v, lt + 1)
              gt == IndexOf(rest, ">")
          IN IF gt = 0 THEN Null ELSE SubSeq(rest, 1, gt - 1)

\* /^List-ID: [^<]*<([^>]*)\.eclipse\.org>/mi, group 1 trimmed
MailmanListId(m) ==
  LET v == Header(m, "List-ID")
      inner == IF v = Null THEN Null ELSE Bracketed(v)
  IN IF inner # Null /\ EndsWith(ToLower(inner), <<".","e","c","l","i","p","s","e",".","o","r","g">>)
     THEN Trim(SubSeq(inner, 1, Len(inner) - Len(<<".","e","c","l","i","p","s","e",".","o","r","g">>)))
     ELSE Null

\* /^X-Report-Abuse-To:(.*hubspot.*)/mi
IsHubspot(m) ==
  LET v == Header(m, "X-Report-Abuse-To")
  IN v # Null /\ Includes(ToLower(v), <<"h","u","b","s","p","o","t">>)

\* /^X-Mailer: *(.*mailchimp.*)/mi
IsMailChimp(m) ==
  LET v == Header(m, "X-Mailer")
  IN v # Null /\ Includes(ToLower(v), <<"m","a","i","l","c","h","i","m","p">>)

\* /^X-Jenkins-Result: *(.*)/mi, group 1 truthy when not empty
IsJenkins(m) ==
  LET v == Header(m, "X-Jenkins-Result")
  IN v # Null /\ SkipBlanks(v) # <<>>

\* /^Sender:[^<]*<(calendar-notification@google.com)>.*/mi, where the "."
\* before "com" matches any character
IsGCal(m) ==
  LET v == Header(m, "Sender")
      lt == IF v = Null THEN 0 ELSE IndexOf(v, "<")
      rest == IF lt = 0 THEN <<>> ELSE ToLower(Tail0(v, lt + 1))
      n == Len(<<"c","a","l","e","n","d","a","r","-","n","o","t","i","f","i","c","a","t","i","o","n","@","g","o","o","g","l","e">>)
  IN /\ lt # 0
     /\ StartsWith(rest, <<"c","a","l","e","n","d","a","r","-","n","o","t","i","f","i","c","a","t","i","o","n","@","g","o","o","g","l","e">>)
     /\ Len(rest) > n
     /\ StartsWith(Tail0(rest, n + 2), <<"c","o","m",">">>)

\* /^From: *[^<]*<([^@]*)@eclipse(-foundation)?\.org>/mi, group 1 trimmed
MailmanFromName(m) ==
  LET v == Header(m, "From")
      lt == IF v = Null THEN 0 ELSE IndexOf(v, "<")
      rest == IF lt = 0 THEN <<>> ELSE Tail0(v, lt + 1)
      at == IndexOf(rest, "@")
      domain == IF at = 0 THEN <<>> ELSE ToLower(Tail0(rest, at + 1))
  IN IF at # 0 /\ (StartsWith(domain, <<"e","c","l","i","p","s","e",".","o","r","g",">">>)
                   \/ StartsWith(domain, <<"e","c","l","i","p","s","e","-","f","o","u","n","d","a","t","i","o","n",".","o","r","g",">">>))
     THEN Trim(SubSeq(rest, 1, at - 1))
     ELSE Null

\* the label path of one message, Null when the callback returns null
MailmanLabelPath(m) ==
  LET listId == MailmanListId(m)
  IN IF listId # Null /\ listId # <<>>
     THEN Slash(MailmanRoot, listId)
     ELSE IF ~IsHubspot(m) /\ ~IsMailChimp(m) /\ ~IsJenkins(m) /\ ~IsGCal(m)
          THEN Null
          ELSE LET fromName == MailmanFromName(m)
               IN IF fromName = Null \/ fromName = <<>>
                  THEN Null
                  ELSE Slash(Slash(MailmanRoot, <<"H","u","b","S","p","o","t"," ","L","i","s","t","s">>), fromName)

\* -------------------------------------------------------------------------
\* AbstractGMailFilter: findLabels, isImportantMessage, _uniqLabels, run
\* -------------------------------------------------------------------------

\* the filters, in the order main() runs them
Filters == <<"GitHub", "GitLab", "Bugzilla", "Mailman">>

\* the body of the callback each subclass maps over thread.getMessages()
LabelPath(f, m) ==
  CASE f = "GitHub" -> GitHubLabelPath(m)
    [] f = "GitLab" -> GitLabLabelPath(m)
    [] f = "Bugzilla" -> BugzillaLabelPath(m)
    [] f = "Mailman" -> MailmanLabelPath(m)

\* isImportantMessage: GitHubFilter and BugzillaFilter override the default
IsImportantMessage(f, m) ==
  CASE f = "GitHub" -> GitHubIsImportantMessage(m)
    [] f = "Bugzilla" -> BugzillaIsImportantMessage(m)
    [] OTHER -> FALSE

\* thread.getMessages().map(m => ...) of findLabels, given the label path of
\* each message: the labels found so far are acc; a throw (missing
\* X-Bugzilla-URL, createLabel failure) ends the map
RECURSIVE FindLabelsMap(_, _, _, _)
\* the callback's return this._getOrCreateLabelHierarchy(...), r its result
FindLabelsResolved(paths, r, failC, acc) ==
  IF r.thrown
  THEN [store |-> r.store, labels |-> acc, thrown |-> TRUE]
  ELSE FindLabelsMap(Tail(paths), r.store, failC, Append(acc, r.label))

FindLabelsMap(paths, st, failC, acc) ==
  IF paths = <<>>
  THEN [store |-> st, labels |-> acc, thrown |-> FALSE]
  ELSE IF Head(paths) = Throw
       THEN [store |-> st, labels |-> acc, thrown |-> TRUE]
       ELSE IF Head(paths) = Null
            THEN FindLabelsMap(Tail(paths), st, failC, Append(acc, Null))
            ELSE FindLabelsResolved(
                   paths, GetOrCreateLabelHierarchy(st, Head(paths), failC),
                   failC, acc)

FindLabels(f, msgs, st, failC) ==
  FindLabelsMap([i \in 1..Len(msgs) |-> LabelPath(f, msgs[i])], st, failC, <<>>)

\* labels.filter((current, index, self) => current &&
\*   self.findIndex(label => label && label.getName() === current.getName()) === index)
RECURSIVE UniqFilter(_, _)
UniqFilter(labels, index) ==
  IF index > Len(labels) THEN <<>>
  ELSE LET current == labels[index]
           keep == /\ current # Null
                   /\ \A j \in 1..(index - 1) : labels[j] # current
       IN (IF keep THEN <<current>> ELSE <<>>) \o UniqFilter(labels, index + 1)

\* _uniqLabels that only drops the nulls
UniqLabelsKeepsDuplicates(labels) == SelectSeq(labels, LAMBDA l : l # Null)

UniqLabels(labels) == UniqFilter(labels, 1)

Call(op, label) == [op |-> op, label |-> label]

\* labels.map(label => { thread.addLabel(label); ... }): thread.addLabel
\* throws for the label failA (an API error injected by the environment)
RECURSIVE AddLabels(_, _, _, _)
AddLabels(labels, applied, calls, failA) ==
  IF labels = <<>>
  THEN [applied |-> applied, calls |-> calls, thrown |-> FALSE]
  ELSE IF Head(labels) = failA
       THEN [applied |-> applied, calls |-> calls, thrown |-> TRUE]
       ELSE AddLabels(Tail(labels), applied \cup {Head(labels)},
                      Append(calls, Call("addLabel", Head(labels))), failA)

\* every instead of some
EveryImportant(f, msgs) == \A i \in 1..Len(msgs) : IsImportantMessage(f, msgs[i])

\* thread.getMessages().some(this.isImportantMessage)
SomeImportant(f, msgs) == \E i \in 1..Len(msgs) : IsImportantMessage(f, msgs[i])

\* lines 104-111 of run(): the routing of a thread whose labels were added
Route(th, found, labels, added, important) ==
  IF important
  THEN [store |-> found.store,
        thread |-> [th EXCEPT !.labels = added.applied,
                              !.importance = "important",
                              !.location = "inbox"],
        labels |-> labels,
        calls |-> added.calls \o <<Call("markImportant", Null),
                                   Call("moveToInbox", Null)>>,
        outcome |-> "routed"]
  ELSE [store |-> found.store,
        thread |-> [th EXCEPT !.labels = added.applied,
                              !.importance = "unimportant",
                              !.location = "archive"],
        labels |-> labels,
        calls |-> added.calls \o <<Call("markUnimportant", Null),
                                   Call("moveToArchive", Null)>>,
        outcome |-> "routed"]

\* lines 99-111 of run(), added being the result of labels.map(...)
AfterAddLabels(f, th, found, labels, added) ==
  IF added.thrown
  THEN [store |-> found.store,
        thread |-> [th EXCEPT !.labels = added.applied],
        labels |-> labels, calls |-> added.calls, outcome |-> "thrown"]
  ELSE Route(th, found, labels, added, SomeImportant(f, th.msgs))

\* lines 94-111 of run(), labels being the result of _uniqLabels
AfterUniqLabels(f, th, found, labels, failA) ==
  IF Len(labels) = 0
  THEN [store |-> found.store, thread |-> th, labels |-> labels,
        calls |-> <<>>, outcome |-> "nolabels"]
  ELSE AfterAddLabels(f, th, found, labels, AddLabels(labels, th.labels, <<>>, failA))

\* lines 92-111 of run(), found being the result of this.findLabels(thread)
AfterFindLabels(f, th, found, failA) ==
  IF found.thrown
  THEN [store |-> found.store, thread |-> th, labels |-> <<>>,
        calls |-> <<>>, outcome |-> "thrown"]
  ELSE AfterUniqLabels(f, th, found, UniqLabels(found.labels), failA)

\* The callback run() maps over the threads of the search: the thread and the
\* store after it, the calls made on the thread, and how the callback ended
\* ("routed", "nolabels" for the early return, "thrown" for an exception).
RunCallback(f, th, st, failC, failA) ==
  AfterFindLabels(f, th, FindLabels(f, th.msgs, st, failC), failA)

\* -------------------------------------------------------------------------
\* The mailbox: messages and threads the searches can return
\* -------------------------------------------------------------------------

NThreads == 2
MaxRuns == 2
MaxFaults == 1

\* GitHub notifications
gh1 == ("X-GitHub-Reason" :> <<"s","u","b","s","c","r","i","b","e","d">>) @@
       ("List-ID" :> <<"e","c","l","i","p","s","e","/","m","y","_","r","e","p","o"," ","<","m","y","_","r","e","p","o",".","e","c","l","i","p","s","e",".","g","i","t","h","u","b",".","c","o","m",">">>)
gh2 == ("X-GitHub-Reason" :> <<"m","e","n","t","i","o","n">>) @@
       ("List-ID" :> <<"e","c","l","i","p","s","e","/","m","y","_","r","e","p","o"," ","<","m","y","_","r","e","p","o",".","e","c","l","i","p","s","e",".","g","i","t","h","u","b",".","c","o","m",">">>)
gh3 == ("X-GitHub-Reason" :> <<"c","i","_","a","c","t","i","v","i","t","y">>)
gh4 == ("List-ID" :> <<"e","c","l","i","p","s","e","/","j","d","t","(","c","o","r","e",")"," ","<","j","d","t",".","e","c","l","i","p","s","e",".","g","i","t","h","u","b",".","c","o","m",">">>)

\* GitLab notifications
gl1 == ("X-GitLab-Project-Path" :> <<"e","c","l","i","p","s","e","/"," ","/","a","/","p","r","o","j">>)
gl2 == ("X-GitLab-Label" :> <<"b","u","g">>)

\* Bugzilla notifications
bz1 == ("X-Bugzilla-URL" :> <<"h","t","t","p","s",":","/","/","b","u","g","s",".","e","c","l","i","p","s","e",".","o","r","g","/","b","u","g","s","/">>) @@
       ("X-Bugzilla-Product" :> <<"P","l","a","t","f","o","r","m">>) @@
       ("X-Bugzilla-Component" :> <<"U","I">>) @@
       ("X-Bugzilla-Reason" :> <<"N","o","n","e">>)
bz2 == ("X-Bugzilla-URL" :> <<"h","t","t","p","s",":","/","/","b","u","g","s",".","e","c","l","i","p","s","e",".","o","r","g","/","b","u","g","s","/">>) @@
       ("X-Bugzilla-Product" :> <<"P","l","a","t","f","o","r","m">>) @@
       ("X-Bugzilla-Component" :> <<"U","I">>) @@
       ("X-Bugzilla-Reason" :> <<"=","?","U","T","F","-","8","?","Q","?","N","o","n","e","?","=">>)
bz3 == ("X-Bugzilla-Reason" :> <<"C","C">>)
bz4 == ("X-Bugzilla-URL" :> <<"h","t","t","p","s",":","/","/","p","o","l","a","r","s","y","s",".","o","r","g","/","b","u","g","s","/">>) @@
       ("X-Bugzilla-Reason" :> <<"C","C">>)

\* mailing lists and bulk mail
ml1 == ("List-ID" :> <<"C","D","T"," ","d","e","v"," ","<","c","d","t","-","d","e","v",".","e","c","l","i","p","s","e",".","o","r","g",">">>)
ml2 == ("X-Mailer" :> <<"M","a","i","l","C","h","i","m","p"," ","M","a","i","l","e","r">>) @@
       ("From" :> <<"E","c","l","i","p","s","e"," ","N","e","w","s"," ","<","n","e","w","s","@","e","c","l","i","p","s","e",".","o","r","g",">">>)
ml3 == ("From" :> <<"S","o","m","e","o","n","e"," ","<","s","o","m","e","o","n","e","@","e","c","l","i","p","s","e",".","o","r","g",">">>)

\* a thread as Gmail delivers it: no user label, importance and location as
\* Gmail set them ("default")
NewThread(from, msgs) ==
  [from |-> from, msgs |-> msgs, labels |-> {},
   importance |-> "default", location |-> "default"]

ThreadPool ==
  { NewThread("notifications@github.com", <<gh1, gh2>>),
    NewThread("notifications@github.com", <<gh3>>),
    NewThread("notifications@github.com", <<gh3, gh4>>),
    NewThread("gitlab@gitlab.eclipse.org", <<gl1, gl2>>),
    NewThread("bugzilla-daemon@eclipse.org", <<bz1, bz2>>),
    NewThread("bugzilla-daemon@polarsys.org", <<bz4, bz3>>),
    NewThread("bugzilla-daemon@eclipse.org", <<bz3, bz1>>),
    NewThread("news@eclipse.org", <<ml1, ml2>>),
    NewThread("news@eclipse.org", <<ml3>>) }

ThreadIds == 1..NThreads

\* -------------------------------------------------------------------------
\* Search queries (the constructors) and GmailApp.search
\* -------------------------------------------------------------------------

DefaultSearchMax == 16

\* The sender part of each filter's searchQuery.  Every modelled thread is
\* received mail dated after 2019/01/01.
MatchesSender(f, from) ==
  CASE f = "GitHub" -> from = "notifications@github.com"
    [] f = "GitLab" -> from = "gitlab@gitlab.eclipse.org"
    [] f = "Bugzilla" -> from \in {"bugzilla-daemon@polarsys.org",
                                   "bugzilla-daemon@eclipse.org"}
    [] f = "Mailman" -> from \in {"news@eclipse.org", "bugzilla-daemon@eclipse.org"}

\* a searchQuery without has:nouserlabels
MatchesQueryAnyLabels(f, th) == MatchesSender(f, th.from)

\* searchQuery: the sender part AND has:nouserlabels
MatchesQuery(f, th) == MatchesSender(f, th.from) /\ th.labels = {}

\* main() constructs every filter without argument: searchMax = 16
SearchMaxInMain(f) == DefaultSearchMax

RECURSIVE Matching(_, _, _)
Matching(f, ths, t) ==
  IF t > NThreads THEN <<>>
  ELSE (IF MatchesQuery(f, ths[t]) THEN <<t>> ELSE <<>>) \o Matching(f, ths, t + 1)

\* GmailApp.search(this.searchQuery, 0, this.searchMax)
Search(f, ths, max) ==
  LET all == Matching(f, ths, 1)
  IN IF Len(all) <= max THEN all ELSE SubSeq(all, 1, max)

\* -------------------------------------------------------------------------
\* State
\* -------------------------------------------------------------------------

VARIABLES
  store,      \* the names of the user labels that exist
  threads,    \* the mailbox: thread id -> thread
  pc,         \* "idle", or where main() is: "search" or "map" of a run()
  cur,        \* index in Filters of the filter main() is running
  searchMax,  \* this.searchMax of that filter
  queue,      \* the threads of the search that run() has still to map
  runs,       \* the number of times the trigger has called main()
  faults,     \* the number of API errors the environment has injected
  processed,  \* thread id -> number of times the callback of run() took it
  last,       \* what the last callback of run() did
  started,    \* the filters whose run() has searched in this main()
  returned,   \* the threads the searches of this main() returned
  handled,    \* the threads the callback took in this main()
  aborted     \* whether an exception ended this main()

vars == <<store, threads, pc, cur, searchMax, queue, runs, faults, processed,
          last, started, returned, handled, aborted>>

\* labels the user may have created before the script is installed
InitialStores == { {}, {<<"G","i","t","H","u","b","/","e","c","l","i","p","s","e","/","m","y"," ","r","e","p","o">>} }

NoCallback ==
  [thread |-> 0, filter |-> "none", outcome |-> "none", labels |-> <<>>,
   calls |-> <<>>, before |-> NewThread("none", <<>>), storeBefore |-> {},
   failC |-> Null, failA |-> Null]

Init ==
  /\ store \in InitialStores
  /\ threads \in [ThreadIds -> ThreadPool]
  /\ pc = "idle"
  /\ cur = 0
  /\ searchMax = 0
  /\ queue = <<>>
  /\ runs = 0
  /\ faults = 0
  /\ processed = [t \in ThreadIds |-> 0]
  /\ last = NoCallback
  /\ started = {}
  /\ returned = {}
  /\ handled = {}
  /\ aborted = FALSE

\* -------------------------------------------------------------------------
\* Actions
\* -------------------------------------------------------------------------

\* the time-based trigger calls main(): new GitHubFilter().run() begins
MainStart ==
  /\ pc = "idle"
  /\ runs < MaxRuns
  /\ runs' = runs + 1
  /\ pc' = "search"
  /\ cur' = 1
  /\ searchMax' = SearchMaxInMain(Filters[1])
  /\ queue' = <<>>
  /\ started' = {}
  /\ returned' = {}
  /\ handled' = {}
  /\ aborted' = FALSE
  /\ UNCHANGED <<store, threads, faults, processed, last>>

\* run(): GmailApp.search(this.searchQuery, 0, this.searchMax)
RunSearch ==
  /\ pc = "search"
  /\ queue' = Search(Filters[cur], threads, searchMax)
  /\ pc' = "map"
  /\ started' = started \cup {Filters[cur]}
  /\ returned' = returned \cup {queue'[i] : i \in 1..Len(queue')}
  /\ UNCHANGED <<store, threads, cur, searchMax, runs, faults, processed, last,
                 handled, aborted>>

Sanitized(name) == ReplaceChars(name, {"(", ")"}, "_")

\* the names of a label and of its ancestors: the prefixes that end before a "/"
LabelAndAncestors(name) ==
  {name} \cup {SubSeq(name, 1, i - 1) : i \in {j \in 1..Len(name) : name[j] = "/"}}

\* the label names the callback can ask the store for, for thread th
NamesOf(f, th) ==
  UNION { LabelAndAncestors(Sanitized(p)) :
            p \in {LabelPath(f, th.msgs[i]) : i \in 1..Len(th.msgs)} \ {Null, Throw} }

\* the API errors the environment may inject into one callback: createLabel
\* throws for one name, or thread.addLabel throws for one label
FaultChoices(f, th) ==
  {<<Null, Null>>} \cup
  (IF faults < MaxFaults
   THEN {<<n, Null>> : n \in NamesOf(f, th) \ store} \cup
        {<<Null, n>> : n \in NamesOf(f, th)}
   ELSE {})

\* the callback of run() on the next thread of the search; an exception
\* leaves run() and main(), which catch nothing
ProcessThread ==
  /\ pc = "map"
  /\ queue # <<>>
  /\ LET t == Head(queue)
         f == Filters[cur]
     IN \E fault \in FaultChoices(f, threads[t]) :
          \E r \in {RunCallback(f, threads[t], store, fault[1], fault[2])} :
             /\ store' = r.store
             /\ threads' = [threads EXCEPT ![t] = r.thread]
             /\ last' = [thread |-> t, filter |-> f, outcome |-> r.outcome,
                         labels |-> r.labels, calls |-> r.calls,
                         before |-> threads[t], storeBefore |-> store,
                         failC |-> fault[1], failA |-> fault[2]]
             /\ faults' = IF fault = <<Null, Null>> THEN faults ELSE faults + 1
             /\ processed' = [processed EXCEPT ![t] = @ + 1]
             /\ handled' = handled \cup {t}
             /\ IF r.outcome = "thrown"
                THEN pc' = "idle" /\ queue' = <<>> /\ aborted' = TRUE
                ELSE pc' = pc /\ queue' = Tail(queue) /\ aborted' = aborted
  /\ UNCHANGED <<cur, searchMax, runs, started, returned>>

\* run() returns and main() constructs and runs the next filter
NextFilter ==
  /\ pc = "map"
  /\ queue = <<>>
  /\ cur < Len(Filters)
  /\ cur' = cur + 1
  /\ searchMax' = SearchMaxInMain(Filters[cur + 1])
  /\ pc' = "search"
  /\ UNCHANGED <<store, threads, queue, runs, faults, processed, last, started,
                 returned, handled, aborted>>

\* the last run() returns and main() returns
MainReturn ==
  /\ pc = "map"
  /\ queue = <<>>
  /\ cur = Len(Filters)
  /\ pc' = "idle"
  /\ UNCHANGED <<store, threads, cur, searchMax, queue, runs, faults, processed,
                 last, started, returned, handled, aborted>>

Next == MainStart \/ RunSearch \/ ProcessThread \/ NextFilter \/ MainReturn

Spec == Init /\ [][Next]_vars

TypeOK ==
  /\ pc \in {"idle", "search", "map"}
  /\ cur \in 0..Len(Filters)
  /\ runs \in 0..MaxRuns
  /\ faults \in 0..MaxFaults

\* -------------------------------------------------------------------------
\* Properties
\* -------------------------------------------------------------------------

Range(seq) == {seq[i] : i \in 1..Len(seq)}

\* the labels of the thread.addLabel calls of the last callback, in order
AddedLabels == [i \in 1..Len(SelectSeq(last.calls, LAMBDA c : c.op = "addLabel")) |->
                  SelectSeq(last.calls, LAMBDA c : c.op = "addLabel")[i].label]

\* the markImportant / markUnimportant / moveToInbox / moveToArchive calls of
\* the last callback, in order
RoutingCalls == [i \in 1..Len(SelectSeq(last.calls, LAMBDA c : c.op # "addLabel")) |->
                   SelectSeq(last.calls, LAMBDA c : c.op # "addLabel")[i].op]

\* at least one message of the last thread satisfies the filter's predicate
LastHasImportantMessage ==
  \E i \in 1..Len(last.before.msgs) : IsImportantMessage(last.filter, last.before.msgs[i])

AllFilters == Range(Filters)

\* C1: a fatal error raised while processing one thread does not abort the
\* batch: when main() is over, every filter has run and every thread a search
\* returned has been taken by the callback of run().  Stated for the runs in
\* which the mail API raised no error, where the fatal error is that of
\* BugzillaFilter.findLabels.
C1_BatchSurvivesFatalError ==
  (pc = "idle" /\ runs > 0 /\ faults = 0) =>
    (started = AllFilters /\ returned \subseteq handled)

C3_AddLabelOncePerName ==
  last.thread # 0 =>
    /\ \A i, j \in 1..Len(AddedLabels) : AddedLabels[i] = AddedLabels[j] => i = j
    /\ Null \notin Range(AddedLabels)
    /\ last.outcome \in {"routed", "nolabels"} =>
         Range(AddedLabels) =
           {Sanitized(LabelPath(last.filter, last.before.msgs[i])) :
              i \in {j \in 1..Len(last.before.msgs) :
                       LabelPath(last.filter, last.before.msgs[j]) # Null}}

\* two messages of the routed thread resolve to the same label
C3_Witness ==
  /\ last.outcome = "routed"
  /\ \E i, j \in 1..Len(last.before.msgs) :
       /\ i # j
       /\ LabelPath(last.filter, last.before.msgs[i]) # Null
       /\ LabelPath(last.filter, last.before.msgs[i]) =
            LabelPath(last.filter, last.before.msgs[j])
  /\ Len(AddedLabels) = 1

\* a message of the last thread has no X-Bugzilla-URL header
LastLacksBugzillaURL ==
  \E i \in 1..Len(last.before.msgs) : Header(last.before.msgs[i], "X-Bugzilla-URL") = Null

\* C4: when a message of a thread handled by BugzillaFilter lacks the
\* X-Bugzilla-URL header, the callback throws and the thread is unmodified: no
\* addLabel, no marking, no move, wherever the message is in the thread.
C4_MissingURLLeavesThreadUnmodified ==
  (last.filter = "Bugzilla" /\ LastLacksBugzillaURL) =>
    /\ last.outcome = "thrown"
    /\ last.calls = <<>>
    /\ threads[last.thread] = last.before

\* the offending message comes after a message that resolved to a label
C4_Witness ==
  /\ last.filter = "Bugzilla"
  /\ Len(last.before.msgs) = 2
  /\ Header(last.before.msgs[1], "X-Bugzilla-URL") # Null
  /\ Header(last.before.msgs[2], "X-Bugzilla-URL") = Null
  /\ last.outcome = "thrown"
  /\ <<"P","o","l","a","r","s","y","s"," ","B","u","g","s">> \in store

\* C5 as stated: a thread the callback of run() has taken carries a user
\* label, and no thread is taken a second time (stated for the runs in which
\* the mail API raised no error).
C5_ProcessedAtMostOnce ==
  faults = 0 =>
    \A t \in ThreadIds : processed[t] > 0 => (threads[t].labels # {} /\ processed[t] = 1)

\* C5 amended: a thread whose callback ran to the routing step carries a user
\* label, and a thread that carries a user label is not returned by a search
\* nor taken by the callback again; a thread for which no label was found or
\* added stays in the search results.
C5_LabelledNeverProcessedAgain ==
  /\ [](last.outcome = "routed" => threads[last.thread].labels # {})
  /\ [][\A t \in ThreadIds :
          threads[t].labels # {} =>
            /\ processed'[t] = processed[t]
            /\ threads'[t] = threads[t]
            /\ t \notin Range(queue')]_vars

\* a later run of the filter that labelled thread t searched without
\* returning it
C5_Witness ==
  \E t \in ThreadIds :
    /\ threads[t].labels # {}
    /\ processed[t] = 1
    /\ runs = 2
    /\ pc = "map"
    /\ MatchesSender(Filters[cur], threads[t].from)
    /\ t \notin returned

\* C6: if thread.addLabel fails for one label of the deduplicated set, every
\* other label of the set is still added to the thread.
C6_AddLabelIndependent ==
  (last.failA # Null /\ last.failA \in Range(last.labels)) =>
    (Range(last.labels) \ {last.failA}) \subseteq threads[last.thread].labels

\* C7: every label applied to a thread has all its ancestors in the store,
\* and the labels _getOrCreateLabelHierarchy returned to the last callback
\* have theirs too.
C7_AncestorsExist ==
  /\ \A t \in ThreadIds : \A l \in threads[t].labels : LabelAndAncestors(l) \subseteq store
  /\ \A l \in Range(last.labels) : LabelAndAncestors(l) \subseteq store

\* the leaf existed without its ancestors before the callback applied it
C7_Witness ==
  /\ last.outcome = "routed"
  /\ \E l \in threads[last.thread].labels :
       /\ l \in last.storeBefore
       /\ Cardinality(LabelAndAncestors(l)) = 3
       /\ LabelAndAncestors(l) \cap last.storeBefore = {l}

\* the maximum the comment of main() gives for the MailmanFilter
MailmanSearchMaxInDoc == 32

\* C8: main() runs the MailmanFilter with searchMax 32 and the other filters
\* with the default 16.
C8_MailmanSearchMax32 ==
  pc \in {"search", "map"} =>
    searchMax = IF Filters[cur] = "Mailman" THEN MailmanSearchMaxInDoc
                ELSE DefaultSearchMax

\* the label path C9 states for a message: the root followed by every segment
\* of the header that is not empty or blank, trimmed
RECURSIVE GitLabStatedReduce(_, _)
GitLabStatedReduce(acc, projectPath) ==
  IF projectPath = <<>> THEN acc
  ELSE IF Trim(Head(projectPath)) # <<>>
       THEN GitLabStatedReduce(Slash(acc, Trim(Head(projectPath))), Tail(projectPath))
       ELSE GitLabStatedReduce(acc, Tail(projectPath))

GitLabStatedPath(m) ==
  IF Header(m, "X-GitLab-Project-Path") # Null
  THEN GitLabStatedReduce(GitLabRootLabel,
                          Split(SkipBlanks(Header(m, "X-GitLab-Project-Path")), "/"))
  ELSE GitLabRootLabel

\* C9: the labels GitLabFilter adds to a thread are those of the stated path
\* of each message, one-character segments included.
C9_GitLabKeepsEverySegment ==
  (last.filter = "GitLab" /\ last.outcome = "routed") =>
    Range(AddedLabels) =
      {Sanitized(GitLabStatedPath(last.before.msgs[i])) : i \in 1..Len(last.before.msgs)}

\* the value of a header with the =?UTF-8?Q?...?= wrapper removed
DecodedValue(v) ==
  IF StartsWith(v, <<"=","?","U","T","F","-","8","?","Q","?">>) /\ EndsWith(v, <<"?","=">>) /\ Len(v) >= 12
  THEN ReplaceChars(SubSeq(v, 11, Len(v) - 2), {"_"}, " ")
  ELSE v

\* C10: BugzillaFilter.isImportantMessage is true exactly when the
\* X-Bugzilla-Reason header is present and its decoded value is not "None".
C10_BugzillaImportantIffReasonNotNone ==
  (last.filter = "Bugzilla" /\ last.outcome = "routed") =>
    \A i \in 1..Len(last.before.msgs) :
      BugzillaIsImportantMessage(last.before.msgs[i]) <=>
        /\ Header(last.before.msgs[i], "X-Bugzilla-Reason") # Null
        /\ Trim(DecodedValue(Header(last.before.msgs[i], "X-Bugzilla-Reason"))) # <<"N","o","n","e">>

====
